---- MODULE Spec2Model ----
(***************************************************************************)
(* Model of fix_background.py: read src/background.js as text, apply two   *)
(* re.sub passes (Step A removes the early console logs that follow the    *)
(* ALARM_NAME anchor, Step B inserts a console-log block after the Firefox *)
(* anchor), write the text back, print a confirmation.                     *)
(*                                                                         *)
(* Text is a sequence of tokens.  "NL" is the character \n, "CR" is \r;    *)
(* every other token stands for a run of characters that holds no line     *)
(* break:                                                                  *)
(*   A1  ALARM_NAME: 'gradescope_auto_sync'                                *)
(*   A2  };                                                                *)
(*   P1  console.log('<rocket> Enhanced background script                  *)
(*   P2  console.log(`<phone> Extension ID                                 *)
(*   P3  console.log(`<key> Chrome Client ID                               *)
(*   P4  console.log(`<globe> Web Client ID                                *)
(*   R1..R4  the rest of the four lines the replacement of Step B writes   *)
(*   CM  // Log configuration AFTER polyfill is loaded                     *)
(*   F1  console.log('<check> Firefox: Modules loaded via manifest.json'); *)
(*   F2  }                                                                 *)
(*   X   any other text without a line break                               *)
(***************************************************************************)
EXTENDS Integers, Sequences, FiniteSets, TLC

VARIABLES
    disk,       \* bytes of src/background.js on disk (<<>> while it does not exist)
    fileState,  \* "ok", "missing", "unreadable" or "readonly"
    linesep,    \* os.linesep of the platform: <<"NL">> or <<"CR","NL">>
    pc,         \* position of the script
    content,    \* the script's variable `content`
    stdout,     \* lines printed
    error,      \* the exception that ended the run, "none" if none
    run,        \* number of the current invocation of the script
    events,     \* history: the steps the current invocation has taken
    disk0,      \* history: bytes on disk when the current invocation started
    input,      \* history: the text f.read() returned in the current invocation
    afterA,     \* history: the text Step A returned in the current invocation
    firstOut    \* history: bytes on disk when the first invocation completed

vars == <<disk, fileState, linesep, pc, content, stdout, error, run, events,
          disk0, input, afterA, firstOut>>

\* ------------------------------------------------------------------ bounds
MaxSegs == 3
MaxRuns == 2
MaxPartial == 1

\* ------------------------------------------------------------------ text
NonNL == {"A1", "A2", "P1", "P2", "P3", "P4", "R1", "R2", "R3", "R4",
          "CM", "F1", "F2", "X", "CR"}

\* The pieces lo..hi of a sequence of texts, joined.
RECURSIVE JoinRange(_, _, _)
JoinRange(ss, lo, hi) ==
    IF lo > hi THEN <<>>
    ELSE IF lo = hi THEN ss[lo]
    ELSE LET mid == (lo + hi) \div 2
         IN  JoinRange(ss, lo, mid) \o JoinRange(ss, mid + 1, hi)

Join(ss) == JoinRange(ss, 1, Len(ss))

\* The pattern of Step A; "PLUS" stands for [^\n]+ .
PatternA == <<"A1", "NL", "A2", "NL", "NL", "P1", "PLUS", "NL",
              "P2", "PLUS", "NL",
              "P3", "PLUS", "NL",
              "P4", "PLUS", "NL">>
\* Its group 1 is its first GroupA items.
GroupA == 3
\* The replacement of Step A; "G1" stands for \1 .
ReplA == <<"G1", "NL">>

\* The pattern of Step B, all of it group 1.
PatternB == <<"F1", "NL", "F2">>
GroupB == 3
ReplB == <<"G1", "NL", "NL", "CM", "NL",
           "P1", "R1", "NL",
           "P2", "R2", "NL",
           "P3", "R3", "NL",
           "P4", "R4", "NL">>

\* First position at or after i of s that holds a line break (Len(s)+1 if none).
RECURSIVE SkipNonNL(_, _)
SkipNonNL(s, i) ==
    IF i <= Len(s) /\ s[i] \in NonNL THEN SkipNonNL(s, i + 1) ELSE i

\* re's matcher: items k.. of pat matched against s from position i.  The
\* position after the match, or 0 when there is none.  [^\n]+ is greedy and
\* is always followed by \n in these patterns, so it takes the whole run.
RECURSIVE MatchFrom(_, _, _, _)
MatchFrom(pat, k, s, i) ==
    IF k > Len(pat) THEN i
    ELSE IF pat[k] = "PLUS"
         THEN LET j == SkipNonNL(s, i)
              IN  IF j = i THEN 0 ELSE MatchFrom(pat, k + 1, s, j)
         ELSE IF i <= Len(s) /\ s[i] = pat[k]
              THEN MatchFrom(pat, k + 1, s, i + 1)
              ELSE 0

MatchAt(pat, s, i) == MatchFrom(pat, 1, s, i)

\* The replacement template expanded for a match that starts at i.
RECURSIVE Expand(_, _, _, _)
Expand(tmpl, glen, s, i) ==
    IF tmpl = <<>> THEN <<>>
    ELSE (IF Head(tmpl) = "G1" THEN SubSeq(s, i, i + glen - 1) ELSE <<Head(tmpl)>>)
         \o Expand(Tail(tmpl), glen, s, i)

\* re's search: the first position at or after i where pat matches, 0 if none.
NextMatch(pat, s, i) ==
    LET c == {k \in i..Len(s) : MatchAt(pat, s, k) # 0}
    IN  IF c = {} THEN 0 ELSE CHOOSE k \in c : \A j \in c : k <= j

\* re.sub(pattern, repl, string, count): scans left to right, replaces the
\* non-overlapping matches, all of them when count = 0, copies the text
\* between them and never rescans what it has written.  i is the position
\* the scan has reached, n the number of replacements made so far.
RECURSIVE SubFrom(_, _, _, _, _, _, _)
SubFrom(pat, glen, tmpl, s, count, i, n) ==
    LET m == IF count = 0 \/ n < count THEN NextMatch(pat, s, i) ELSE 0
    IN  IF m = 0
        THEN SubSeq(s, i, Len(s))
        ELSE SubSeq(s, i, m - 1) \o Expand(tmpl, glen, s, m)
             \o SubFrom(pat, glen, tmpl, s, count, MatchAt(pat, s, m), n + 1)

\* Variant: at most one replacement is made, whatever count says.
ReSub_FirstOnly(pat, glen, tmpl, s, count) == SubFrom(pat, glen, tmpl, s, 1, 1, 0)

ReSub(pat, glen, tmpl, s, count) == SubFrom(pat, glen, tmpl, s, count, 1, 0)

\* The two calls of the script; neither passes count, which defaults to 0.
\* Variant: the pattern asks for one newline after the anchor, not two.
StepA_SingleNewline(s) ==
    ReSub(SubSeq(PatternA, 1, GroupA + 1) \o SubSeq(PatternA, GroupA + 3, Len(PatternA)),
          GroupA, ReplA, s, 0)
\* Variant: the replacement is r"\1", without the newline.
StepA_DropsNewline(s) == ReSub(PatternA, GroupA, <<"G1">>, s, 0)

StepA(s) == ReSub(PatternA, GroupA, ReplA, s, 0)

\* Variant: the replacement does not start with \1, so the anchor is lost.
StepB_WithoutGroup(s) == ReSub(PatternB, GroupB, Tail(ReplB), s, 0)
\* Variant: the pattern stops at the console.log line and leaves out the closing brace.
StepB_FirstLineOnly(s) == ReSub(<<"F1">>, 1, ReplB, s, 0)

StepB(s) == ReSub(PatternB, GroupB, ReplB, s, 0)

\* open(..., 'r', encoding='utf-8').read(): universal newlines, \r\n and a
\* lone \r both become \n.
ReadText(b) ==
    Join([i \in 1..Len(b) |->
            IF b[i] = "CR" THEN <<"NL">>
            ELSE IF b[i] = "NL" /\ i > 1 /\ b[i - 1] = "CR" THEN <<>>
            ELSE <<b[i]>>])

\* open(..., 'w', encoding='utf-8').write(): every \n is written as os.linesep.
WriteText(s, sep) ==
    Join([i \in 1..Len(s) |-> IF s[i] = "NL" THEN sep ELSE <<s[i]>>])

\* ------------------------------------------------------------------ inputs
OldBlock == <<"P1", "X", "NL", "P2", "X", "NL", "P3", "X", "NL", "P4", "X", "NL">>
Anchor == <<"A1", "NL", "A2", "NL">>
Segments ==
    << Anchor \o <<"NL">> \o OldBlock,
       Anchor,
       <<"NL">> \o OldBlock,
       OldBlock,
       <<"NL", "P1", "X", "NL", "P2", "X", "NL", "P3", "X", "NL", "P4", "F1", "NL", "F2", "NL">>,
       <<"F1", "NL", "F2", "NL">>,
       <<"F1", "NL">>,
       <<"X", "CR", "NL">> >>

Inputs ==
    { Join([k \in DOMAIN sel |-> Segments[sel[k]]]) :
        sel \in UNION { [1..n -> 1..Len(Segments)] : n \in 0..MaxSegs } }

SuccessMsg == "Fixed background.js - console logs moved after polyfill import"

\* ------------------------------------------------------------------ script
Init ==
    /\ fileState \in {"ok", "missing", "unreadable", "readonly"}
    /\ disk \in (IF fileState = "missing" THEN {<<>>} ELSE Inputs)
    /\ linesep \in {<<"NL">>, <<"CR", "NL">>}
    /\ pc = "read"
    /\ content = <<>>
    /\ stdout = <<>>
    /\ error = "none"
    /\ run = 1
    /\ events = <<>>
    /\ disk0 = disk
    /\ input = <<>>
    /\ afterA = <<>>
    /\ firstOut = <<>>

Range(f) == {f[i] : i \in DOMAIN f}

Min(a, b) == IF a < b THEN a ELSE b

\* Variant: a file that cannot be read is taken to be empty.
Read_IgnoresFailure ==
    /\ pc = "read"
    /\ content' = (IF fileState \in {"missing", "unreadable"} THEN <<>> ELSE ReadText(disk))
    /\ input' = content'
    /\ events' = Append(events, "read")
    /\ pc' = "stepA"
    /\ UNCHANGED <<disk, fileState, linesep, stdout, error, run, disk0, afterA, firstOut>>

\* with open('src/background.js', 'r', encoding='utf-8') as f: content = f.read()
Read ==
    /\ pc = "read"
    /\ IF fileState \in {"missing", "unreadable"}
       THEN /\ error' = (IF fileState = "missing" THEN "FileNotFoundError"
                                                  ELSE "PermissionError")
            /\ pc' = "error"
            /\ UNCHANGED <<content, input, events>>
       ELSE /\ content' = ReadText(disk)
            /\ input' = content'
            /\ events' = Append(events, "read")
            /\ pc' = "stepA"
            /\ error' = error
    /\ UNCHANGED <<disk, fileState, linesep, stdout, run, disk0, afterA, firstOut>>

\* content = re.sub(<removal pattern>, r"\1\n", content)
RemoveEarlyLogs ==
    /\ pc = "stepA"
    /\ content' = StepA(content)
    /\ afterA' = content'
    /\ events' = Append(events, "stepA")
    /\ pc' = "stepB"
    /\ UNCHANGED <<disk, fileState, linesep, stdout, error, run, disk0, input, firstOut>>

\* content = re.sub(<Firefox anchor>, r"\1\n\n// Log configuration ...", content)
AddLogsAfterImport ==
    /\ pc = "stepB"
    /\ content' = StepB(content)
    /\ events' = Append(events, "stepB")
    /\ pc' = "open_w"
    /\ UNCHANGED <<disk, fileState, linesep, stdout, error, run, disk0, input, afterA,
                   firstOut>>

\* open('src/background.js', 'w', encoding='utf-8'): creates the file if it is
\* missing and truncates it, or raises when the file may not be written.
OpenW ==
    /\ pc = "open_w"
    /\ IF fileState = "readonly"
       THEN /\ error' = "PermissionError"
            /\ pc' = "error"
            /\ UNCHANGED <<disk, fileState, events>>
       ELSE /\ disk' = <<>>
            /\ fileState' = "ok"
            /\ events' = Append(events, "open_w")
            /\ pc' = "write"
            /\ error' = error
    /\ UNCHANGED <<linesep, content, stdout, run, disk0, input, afterA, firstOut>>

\* f.write(content) and the close at the end of the with block: all of the
\* text reaches the disk, or the device fails (disk full, I/O error) with
\* only a prefix of it written.
Write ==
    /\ pc = "write"
    /\ LET bytes == WriteText(content, linesep)
       IN  \/ /\ disk' = bytes
              /\ events' = Append(events, "write")
              /\ pc' = "print"
              /\ error' = error
           \/ \E k \in 0..Min(MaxPartial, Len(bytes)) :
                /\ disk' = SubSeq(bytes, 1, k)
                /\ error' = "OSError"
                /\ pc' = "error"
                /\ events' = events
    /\ UNCHANGED <<fileState, linesep, content, stdout, run, disk0, input, afterA,
                   firstOut>>

\* Variant: the message is printed before the file is opened for writing.
PrintSuccess_BeforeWrite ==
    /\ pc = "open_w"
    /\ stdout' = Append(stdout, SuccessMsg)
    /\ events' = Append(events, "print")
    /\ pc' = "done"
    /\ firstOut' = (IF run = 1 THEN disk ELSE firstOut)
    /\ UNCHANGED <<disk, fileState, linesep, content, error, run, disk0, input, afterA>>

\* print("... Fixed background.js - console logs moved after polyfill import")
PrintSuccess ==
    /\ pc = "print"
    /\ stdout' = Append(stdout, SuccessMsg)
    /\ events' = Append(events, "print")
    /\ pc' = "done"
    /\ firstOut' = (IF run = 1 THEN disk ELSE firstOut)
    /\ UNCHANGED <<disk, fileState, linesep, content, error, run, disk0, input, afterA>>

\* The script is invoked again on the file the previous invocation left.
Rerun ==
    /\ pc = "done"
    /\ run < MaxRuns
    /\ run' = run + 1
    /\ pc' = "read"
    /\ content' = <<>>
    /\ stdout' = <<>>
    /\ events' = <<>>
    /\ disk0' = disk
    /\ input' = <<>>
    /\ afterA' = <<>>
    /\ UNCHANGED <<disk, fileState, linesep, error, firstOut>>

Next ==
    \/ Read
    \/ RemoveEarlyLogs
    \/ AddLogsAfterImport
    \/ OpenW
    \/ Write
    \/ PrintSuccess
    \/ Rerun

Spec == Init /\ [][Next]_vars

\* ------------------------------------------------------------------ helpers of the properties
Started == events # <<>>
Completed == pc = "done"

\* Positions of s where a match of pat starts.
Starts(pat, s) == {i \in 1..Len(s) : MatchAt(pat, s, i) # 0}
HasMatch(pat, s) == Starts(pat, s) # {}

\* Number of non-overlapping matches of pat in s, counted left to right.
RECURSIVE CountFrom(_, _, _)
CountFrom(pat, s, i) ==
    LET m == NextMatch(pat, s, i)
    IN  IF m = 0 THEN 0 ELSE 1 + CountFrom(pat, s, MatchAt(pat, s, m))
CountMatches(pat, s) == CountFrom(pat, s, 1)

\* Four diagnostic lines, as Step A's pattern describes them.
DiagBlock == SubSeq(PatternA, 6, Len(PatternA))
CountBlocks(s) == CountMatches(DiagBlock, s)

\* What Step B's replacement writes after the anchor.
Inserted == Tail(ReplB)
FollowedByLogs(s, i) == SubSeq(s, i + Len(PatternB), i + Len(PatternB) + Len(Inserted) - 1) = Inserted

\* No match of Step A's pattern shares a position with a Firefox anchor.
Disjoint(s) ==
    \A a \in Starts(PatternA, s), f \in Starts(PatternB, s) :
        f + Len(PatternB) <= a \/ MatchAt(PatternA, s, a) <= f

\* A removed block is followed at once by a blank line and four more diagnostic lines.
BlockFollows(s) ==
    \E a \in Starts(PatternA, s) : MatchFrom(PatternA, GroupA + 2, s, MatchAt(PatternA, s, a)) # 0

Count(tok, s) == Cardinality({i \in 1..Len(s) : s[i] = tok})

\* ------------------------------------------------------------------ C1
\* C1 (as claimed): a second invocation on the output of the first leaves the
\* file as the first invocation left it: patch(patch(x)) = patch(x).
C1_SecondRunIsNoOp == (run = 2 /\ Completed) => disk = firstOut

\* ------------------------------------------------------------------ C2
\* C2 (as claimed): when the removal pattern occurs at least once, Step A
\* rewrites the first occurrence only and leaves the later ones as they were.
C2_ReplaceFirstOnly ==
    ("stepA" \in Range(events) /\ HasMatch(PatternA, input))
        => afterA = ReSub(PatternA, GroupA, ReplA, input, 1)

RoundTripInput(s) == HasMatch(PatternA, s) /\ HasMatch(PatternB, s) /\ Disjoint(s)

NoLogsAfterAlarm(s) == ~HasMatch(PatternA, s)
LogsAfterFirefox(s) ==
    /\ HasMatch(PatternB, s)
    /\ \A i \in Starts(PatternB, s) : FollowedByLogs(s, i)

C5_ReadFailure ==
    (fileState \in {"missing", "unreadable"} /\ pc # "read") =>
        /\ pc = "error"
        /\ error \in {"FileNotFoundError", "PermissionError"}
        /\ events = <<>>
        /\ disk = disk0
        /\ content = <<>>
        /\ stdout = <<>>

C5_Witness ==
    /\ fileState = "missing" /\ pc = "error" /\ error = "FileNotFoundError"
    /\ disk = <<>> /\ stdout = <<>>

\* ------------------------------------------------------------------ C6
\* C6 (as claimed): in every run where the read succeeds and the write step
\* fails, the file on disk holds what it held before the run and the success
\* message is not printed.
C6_FailedWriteLeavesFile ==
    (Started /\ pc = "error") => (disk = disk0 /\ stdout = <<>>)

\* ------------------------------------------------------------------ C7
\* C7: Step A returns its input when the removal pattern is absent, Step B
\* returns its input when the Firefox anchor is absent, and a run in which
\* exactly one of the two matches completes with the success message and the
\* file holding that one change alone.
C7_PerStepIdentity ==
    /\ ("stepA" \in Range(events) /\ ~HasMatch(PatternA, input)) => afterA = input
    /\ ("stepB" \in Range(events) /\ ~HasMatch(PatternB, afterA)) => content = afterA
    /\ (Completed /\ HasMatch(PatternA, input) /\ ~HasMatch(PatternB, input)) =>
          /\ content = afterA /\ Count("CM", content) = Count("CM", input)
          /\ Len(content) < Len(input)
          /\ disk = WriteText(content, linesep) /\ stdout = <<SuccessMsg>>
    /\ (Completed /\ ~HasMatch(PatternA, input) /\ HasMatch(PatternB, input)) =>
          /\ afterA = input /\ CountBlocks(content) > CountBlocks(input)
          /\ Len(content) = Len(input) + Len(Inserted) * CountMatches(PatternB, input)
          /\ disk = WriteText(content, linesep) /\ stdout = <<SuccessMsg>>

C7_Witness ==
    /\ Completed /\ HasMatch(PatternA, input) /\ ~HasMatch(PatternB, input)
    /\ content = afterA /\ content # input

\* ------------------------------------------------------------------ C8
Pipeline == <<"read", "stepA", "stepB", "open_w", "write", "print">>

\* C8: the steps of a run are a prefix of read, Step A, Step B, open, write,
\* print, each taken at most once; the file changes only after both
\* substitutions; the message is printed only after the write completed, is
\* printed on every completed run, and never on a failed one.
C8_PipelineOrder ==
    /\ Len(events) <= Len(Pipeline) /\ events = SubSeq(Pipeline, 1, Len(events))
    /\ disk # disk0 => "stepB" \in Range(events)
    /\ "stepB" \in Range(events) => content = StepB(afterA)
    /\ stdout # <<>> => "write" \in Range(events)
    /\ Completed <=> events = Pipeline
    /\ Completed => stdout = <<SuccessMsg>>
    /\ pc = "error" => stdout = <<>>

C8_Witness ==
    /\ Completed /\ events = Pipeline /\ stdout = <<SuccessMsg>>
    /\ input = content

\* ------------------------------------------------------------------ C9
\* The text with the one removal match at a cut down to the anchor and a
\* newline, and the logs spliced in after the one Firefox anchor at f,
\* built from the positions.
Spliced(s, a, f) ==
    LET ea == MatchAt(PatternA, s, a)
        keep == SubSeq(s, a, a + GroupA - 1) \o <<"NL">>
    IN  IF f < a
        THEN SubSeq(s, 1, f + Len(PatternB) - 1) \o Inserted
             \o SubSeq(s, f + Len(PatternB), a - 1) \o keep \o SubSeq(s, ea, Len(s))
        ELSE SubSeq(s, 1, a - 1) \o keep \o SubSeq(s, ea, f + Len(PatternB) - 1)
             \o Inserted \o SubSeq(s, f + Len(PatternB), Len(s))

OneSiteEach(s) ==
    /\ Cardinality(Starts(PatternA, s)) = 1
    /\ Cardinality(Starts(PatternB, s)) = 1
    /\ Disjoint(s)

CombinedCorrect(s, out) ==
    \E a \in Starts(PatternA, s), f \in Starts(PatternB, s) : out = Spliced(s, a, f)

\* C9 (as claimed): with the two regions disjoint, the combined result is
\* correct only if Step A's target precedes Step B's target in the text.
C9_CorrectOnlyIfAFirst ==
    (Completed /\ OneSiteEach(input) /\ CombinedCorrect(input, content)) =>
        \A a \in Starts(PatternA, input), f \in Starts(PatternB, input) : a < f

\* C9 (amended): with the two regions disjoint, the combined result is
\* correct whichever of the two targets comes first in the text.
C9_CorrectInEitherOrder ==
    (Completed /\ OneSiteEach(input)) => CombinedCorrect(input, content)

C9_Witness ==
    /\ Completed /\ OneSiteEach(input) /\ CombinedCorrect(input, content)
    /\ \E a \in Starts(PatternA, input), f \in Starts(PatternB, input) : f < a

\* ------------------------------------------------------------------ C10
\* C10 (as claimed): the output holds as many diagnostic blocks as the input.
C10_BlocksPreserved == Completed => CountBlocks(content) = CountBlocks(input)

\* C10 (amended): the two steps are independent: the output holds the
\* input's blocks, less one for each removal match, plus one for each Firefox
\* anchor of the text Step B worked on.
C10_BlocksAccount ==
    Completed => CountBlocks(content) =
        CountBlocks(input) - CountMatches(PatternA, input) + CountMatches(PatternB, afterA)

C10_Witness ==
    /\ Completed
    /\ CountMatches(PatternA, input) = 2 /\ CountMatches(PatternB, afterA) = 1
    /\ CountBlocks(input) = 2 /\ CountBlocks(content) = 1

====
